---- MODULE Spec2Model ----
(***************************************************************************)
(* State-machine model of createNftEventStreamServer                       *)
(* (src/src/websocketServer.js): the polling / dedup / broadcast engine,   *)
(* the client registry and the control-message handler.                    *)
(*                                                                         *)
(* One action is one run-to-completion callback of the Node event loop:    *)
(* the listen callback, a "connection" event, a "message" event, a "close" *)
(* event, a tick of the interval timer, the continuation of pollEvents     *)
(* after its await, and the calls of the returned API.  JavaScript runs    *)
(* each of them without interleaving, so each is one atomic step.          *)
(*                                                                         *)
(* `ops` records, in program order, the externally visible effects of the  *)
(* most recent step (axios.request calls, broadcast calls, socket sends);  *)
(* `last` records which callback ran and with which input, `ret` what the  *)
(* call returned.  `cycles`, `finished`, `inbox`, `failStreak` and         *)
(* `sentLive` are history variables: they record what happened and         *)
(* influence nothing.                                                      *)
(*                                                                         *)
(* WebSocket.OPEN (lines 207, 220) is read from the global WebSocket of    *)
(* the runtime; the model takes the runtime that defines it.               *)
(***************************************************************************)
EXTENDS Integers, Sequences, FiniteSets, TLC

\* ---------------------------------------------------------------- bounds
MaxConns == 2        \* connections accepted over the run
NumTx == 3           \* distinct txHash values upstream can return
MaxBatch == 3        \* longest content array of one upstream response
Capacity == 2        \* dedup window capacity (1000 at lines 100-103, scaled)
MaxInFlight == 2     \* cap on simultaneously outstanding upstream fetches
MaxTimers == 2       \* interval-timer handles available
MaxTime == 2         \* clock values Date.now() / client timestamps range over
MaxStreak == 2       \* consecutive failed poll cycles that are counted

Conns == 1..MaxConns
TxHashes == 1..NumTx
TimerIds == 1..MaxTimers
Times == 1..MaxTime

\* ------------------------------------------------------- program constants
DefaultPollInterval == 30000
DefaultEventTypes == "List"
DefaultMarketplaces == "TradePort"
InvalidFormatText == "Invalid message format. Expected JSON."
ConnectedText == "Connected to NFT Event Stream server"

\* values setPollInterval may be called with
PollIntervals == {DefaultPollInterval, 5000}

VARIABLES
  listening,        \* the server.listen callback has run
  closed,           \* server.close() has been called
  nextConn,         \* next connection (and clientId) to be accepted
  clients,          \* keys of the `clients` Map, in insertion order
  readyState,       \* readyState of each connection's socket
  lastSeenTxHashes, \* the Set, as its insertion-ordered element sequence
  pollInterval,     \* the `pollInterval` parameter / variable
  pollingInterval,  \* the timer handle (0 = null)
  timers,           \* active interval timers: handle -> period (0 = inactive)
  pending,          \* requests of the upstream fetches not yet resolved
  sentLive,         \* history: per txHash, nft_event broadcasts made during
                    \* its current residence in lastSeenTxHashes (capped at 2)
  cycles,           \* history: one record per entry of `pending`: did a
                    \* later poll cycle begin since this one's fetch was
                    \* issued, and was the Watched txHash broadcast meanwhile
  finished,         \* history: that record of the cycle the most recent
                    \* step completed (NoCycle when it completed none)
  inbox,            \* history: per connection, the type of the first
                    \* message sent to it and the number of greetings sent
                    \* to it (capped at 2)
  failStreak,       \* history: failed poll cycles since the last
                    \* successful one (counted up to a depth the
                    \* specification chooses)
  ops,              \* effects of the most recent step, in program order
  last,             \* the callback that ran in the most recent step
  ret               \* what the call made in the most recent step returned

vars == <<listening, closed, nextConn, clients, readyState, lastSeenTxHashes,
          pollInterval, pollingInterval, timers, pending, sentLive, cycles,
          finished, inbox, failStreak, ops, last, ret>>

\* ---------------------------------------------------------------- helpers
Range(s) == {s[i] : i \in 1..Len(s)}

Min(a, b) == IF a < b THEN a ELSE b

RemoveAt(s, i) == SubSeq(s, 1, i - 1) \o SubSeq(s, i + 1, Len(s))

SeqsUpTo(S, n) == UNION {[1..k -> S] : k \in 0..n}

RECURSIVE Flatten(_)
Flatten(ss) == IF ss = <<>> THEN <<>> ELSE Head(ss) \o Flatten(Tail(ss))

\* number of positions of s holding x
Count(s, x) == Cardinality({i \in 1..Len(s) : s[i] = x})

\* ------------------------------------------------------ wire-level values
\* A server-to-client message (the object handed to JSON.stringify).
\* Fields a message type does not carry hold "" / 0.
Msg(type, timestamp, txHash, eventTypes, marketplaces, message, clientId, interval) ==
  [type |-> type, timestamp |-> timestamp, txHash |-> txHash,
   eventTypes |-> eventTypes, marketplaces |-> marketplaces,
   message |-> message, clientId |-> clientId, pollInterval |-> interval]

\* An entry of `ops`.
FetchOp(req) == [op |-> "fetch", to |-> 0,
                 msg |-> Msg("request", 0, 0, req.eventTypes, req.marketplaces, "", 0, 0)]
BroadcastOp(m) == [op |-> "broadcast", to |-> 0, msg |-> m]
SendOp(c, m) == [op |-> "send", to |-> c, msg |-> m]

\* Raw payloads a client can put on the socket.  `kind` is what the text is:
\* not JSON at all, the JSON literal null, a JSON number or string, or a JSON
\* object with the listed members ("" / 0 = member absent).
Raw(kind, type, timestamp, eventTypes, marketplaces) ==
  [kind |-> kind, type |-> type, timestamp |-> timestamp,
   eventTypes |-> eventTypes, marketplaces |-> marketplaces]

Payloads ==
  {Raw("garbage", "", 0, "", ""), Raw("null", "", 0, "", ""),
   Raw("scalar", "", 0, "", ""), Raw("object", "", 0, "", ""),
   Raw("object", "subscribe", 0, "", ""),
   Raw("object", "get_latest_events", 0, "", "")}
  \cup {Raw("object", "ping", t, "", "") : t \in Times}
  \cup {Raw("object", "update_filters", 0, e, m) :
          e \in {"", "Sale"}, m \in {"", "BlueMove"}}

\* Upstream outcomes of one axios.request: `ok` is "the promise fulfilled"
\* (no network error, 2xx status); `body` is the response body, whose
\* `content` member is absent, present but not an array, or an array of
\* event objects (given by their txHash).
Body(kind, content) == [kind |-> kind, content |-> content]

Bodies ==
  {Body("null", <<>>), Body("nocontent", <<>>), Body("notarray", <<>>)}
  \cup {Body("array", c) : c \in SeqsUpTo(TxHashes, MaxBatch)}

\* a rejected request (network error, non-2xx) may still carry a body
Responses ==
  [ok : {TRUE}, body : Bodies]
  \cup [ok : {FALSE},
        body : {Body("null", <<>>), Body("nocontent", <<>>)}
               \cup {Body("array", <<h>>) : h \in TxHashes}]

NoResponse == [ok |-> FALSE, body |-> Body("null", <<>>)]

\* An entry of `last`.
Step(handler, conn, payload, resp) ==
  [handler |-> handler, conn |-> conn, payload |-> payload, resp |-> resp]

NoPayload == Raw("", "", 0, "", "")

\* ------------------------------------------------------------- registry
\* sendToClient: one socket send iff the id is registered and its socket OPEN.
SendToClient(cl, rs, c, m) ==
  IF c \in Range(cl) /\ rs[c] = "OPEN" THEN <<SendOp(c, m)>> ELSE <<>>

\* faulty variant: broadcast without the readyState test
BroadcastSendsAll(cl, rs, m) == [i \in 1..Len(cl) |-> SendOp(cl[i], m)]

\* faulty variant: every OPEN socket is sent the message twice
BroadcastSendsTwice(cl, rs, m) ==
  Flatten([i \in 1..Len(cl) |->
             IF rs[cl[i]] = "OPEN" THEN <<SendOp(cl[i], m), SendOp(cl[i], m)>>
             ELSE <<>>])

\* broadcast: visit the Map in insertion order, send to the OPEN sockets.
BroadcastSends(cl, rs, m) ==
  Flatten([i \in 1..Len(cl) |->
             IF rs[cl[i]] = "OPEN" THEN <<SendOp(cl[i], m)>> ELSE <<>>])

Broadcast(cl, rs, m) == <<BroadcastOp(m)>> \o BroadcastSends(cl, rs, m)

\* clients.delete(id)
MapDelete(cl, c) == SelectSeq(cl, LAMBDA x : x # c)

\* ------------------------------------------------------------- messages
ConnectionEstablishedMsg(c, interval, now) ==
  Msg("connection_established", now, 0, "", "", ConnectedText, c, interval)

PongMsg(parsedMessage, now) == Msg("pong", now, 0, "", "", "", 0, 0)

FetchingEventsMsg(now) == Msg("fetching_events", now, 0, "", "", "", 0, 0)

\* `a || b` on strings: the empty / absent string is falsy
OrElse(a, b) == IF a # "" THEN a ELSE b

FiltersUpdatedMsg(parsedMessage, now) ==
  Msg("filters_updated", now, 0,
      OrElse(parsedMessage.eventTypes, DefaultEventTypes),
      OrElse(parsedMessage.marketplaces, DefaultMarketplaces), "", 0, 0)

ErrorMsg == Msg("error", 0, 0, "", "", InvalidFormatText, 0, 0)

NftEventMsg(txHash, now) == Msg("nft_event", now, txHash, "", "", "", 0, 0)

\* --------------------------------------------------------------- polling
\* The request fetchNftEvents builds from its (defaulted) parameters.
FetchNftEventsRequest(eventTypes, marketplaces) ==
  [eventTypes |-> eventTypes, marketplaces |-> marketplaces]

\* pollEvents calls fetchNftEvents() with no arguments.
PollRequest == FetchNftEventsRequest(DefaultEventTypes, DefaultMarketplaces)

\* faulty variant: fetchNftEvents handing back the body of a rejected request
FetchNftEventsResultKeepBody(resp) == resp.body

\* What fetchNftEvents returns: response.data, or null from the catch.
FetchNftEventsResult(resp) ==
  IF resp.ok THEN resp.body ELSE Body("null", <<>>)

\* !eventData || !eventData.content || !Array.isArray(eventData.content)
InvalidEventData(eventData) == eventData.kind # "array"

\* faulty variant: no filtering against the window
NewEventsUnfiltered(content, seen) == content

\* eventData.content.filter(event => !lastSeenTxHashes.has(event.txHash))
NewEvents(content, seen) == SelectSeq(content, LAMBDA h : h \notin Range(seen))

\* Set.prototype.add: appends iff absent, insertion order kept
SetAdd(seen, h) == IF h \in Range(seen) THEN seen ELSE Append(seen, h)

\* newEvents.forEach(event => lastSeenTxHashes.add(event.txHash))
RECURSIVE AddAll(_, _)
AddAll(seen, newEvents) ==
  IF newEvents = <<>> THEN seen
  ELSE AddAll(SetAdd(seen, Head(newEvents)), Tail(newEvents))

\* faulty variant: trimming that keeps the oldest entries: slice(0, 1000)
TrimKeepOldest(seen) ==
  IF Len(seen) > Capacity THEN SubSeq(seen, 1, Capacity) ELSE seen

\* if (size > 1000) keep hashesArray.slice(length - 1000)
Trim(seen) ==
  IF Len(seen) > Capacity
  THEN SubSeq(seen, Len(seen) - Capacity + 1, Len(seen))
  ELSE seen

\* newEvents.forEach(event => broadcast({type: "nft_event", ...}))
BroadcastEach(cl, rs, newEvents, now) ==
  Flatten([i \in 1..Len(newEvents) |->
             Broadcast(cl, rs, NftEventMsg(newEvents[i], now))])

\* ---------------------------------------------------------------- timers
\* faulty variant: the old timer is left running
ClearIntervalNot(tm, handle) == tm

\* clearInterval(handle), called when the handle is not null
ClearInterval(tm, handle) ==
  IF handle # 0 THEN [tm EXCEPT ![handle] = 0] ELSE tm

FreeTimerIds(tm) == {t \in TimerIds : tm[t] = 0}

\* the handle setInterval returns: a timer object not currently active
NewTimerId(tm) == CHOOSE t \in FreeTimerIds(tm) : \A u \in FreeTimerIds(tm) : t <= u

\* faulty variant: pollEvents that does nothing while a fetch is outstanding
PollEventsSingleFlight(p) == IF p = <<>> THEN Append(p, PollRequest) ELSE p

\* pollEvents() up to its await: whatever is outstanding, one more
\* axios.request is issued.
PollEvents(p) == Append(p, PollRequest)

\* ------------------------------------------------------ history variables
\* the txHash whose broadcasts the cycle records follow (the engine treats
\* all txHashes alike)
Watched == CHOOSE h \in TxHashes : \A g \in TxHashes : h <= g

\* the record of a cycle that has just begun / of no cycle
NoCycle == [overtaken |-> FALSE, sent |-> FALSE]

\* What a specification has the history variables follow: whether cycles
\* record overlap, and up to which length failStreak counts.
NoHistory == [overlap |-> FALSE, streak |-> 0]

FollowOverlap == [overlap |-> TRUE, streak |-> 0]

FollowStreak == [overlap |-> FALSE, streak |-> MaxStreak]

\* a poll cycle begins: every outstanding cycle has now been overtaken
BeginCycle(cy, hist) ==
  [i \in 1..Len(cy) |-> [cy[i] EXCEPT !.overtaken = hist.overlap]] \o <<NoCycle>>

\* the outstanding cycles after cycle i completed, broadcasting txs
EndCycle(cy, i, txs, hist) ==
  LET rest == RemoveAt(cy, i)
  IN [j \in 1..Len(rest) |->
        [rest[j] EXCEPT !.sent = @ \/ (hist.overlap /\ Watched \in txs)]]

\* the messages a sequence of ops sent to connection c, in order
MsgsTo(o, c) ==
  LET m == SelectSeq(o, LAMBDA e : e.op = "send" /\ e.to = c)
  IN [i \in 1..Len(m) |-> m[i].msg]

\* the inbox record of a connection after it was sent the messages ms
Received(box, ms) ==
  [first |-> IF box.first = "" /\ Len(ms) > 0 THEN ms[1].type ELSE box.first,
   greetings |-> Min(2, box.greetings +
                        Cardinality({i \in 1..Len(ms) :
                                       ms[i].type = "connection_established"}))]

\* a step that may call pollEvents and completes no poll cycle
Track(hist) ==
  /\ cycles' = IF Len(pending') > Len(pending) THEN BeginCycle(cycles, hist)
               ELSE cycles
  /\ finished' = NoCycle
  /\ failStreak' = failStreak

\* a step that neither begins nor completes a poll cycle
Idle ==
  /\ cycles' = cycles
  /\ finished' = NoCycle
  /\ failStreak' = failStreak

\* every step: the sends of the step reach the inboxes
Deliver == inbox' = [c \in Conns |-> Received(inbox[c], MsgsTo(ops', c))]

\* JavaScript values a call can return: undefined (what a function without
\* a return statement returns) and the numbers
Undefined == [kind |-> "undefined", val |-> 0]

Number(n) == [kind |-> "number", val |-> n]

\* startEventPolling with `interval` as the current pollInterval:
\* clear the old timer, pollEvents(), schedule the new timer.
StartEventPolling(interval) ==
  LET cleared == ClearInterval(timers, pollingInterval)
  IN /\ Len(pending) < MaxInFlight
     /\ FreeTimerIds(cleared) # {}
     /\ pending' = PollEvents(pending)
     /\ pollingInterval' = NewTimerId(cleared)
     /\ timers' = [cleared EXCEPT ![NewTimerId(cleared)] = interval]
     /\ ops' = <<FetchOp(PollRequest)>>

\* ----------------------------------------------------------------- Init
Init ==
  /\ listening = FALSE
  /\ closed = FALSE
  /\ nextConn = 1
  /\ clients = <<>>
  /\ readyState = [c \in Conns |-> "NONE"]
  /\ lastSeenTxHashes = <<>>
  /\ pollInterval = DefaultPollInterval
  /\ pollingInterval = 0
  /\ timers = [t \in TimerIds |-> 0]
  /\ pending = <<>>
  /\ sentLive = [h \in TxHashes |-> 0]
  /\ cycles = <<>>
  /\ finished = NoCycle
  /\ inbox = [c \in Conns |-> [first |-> "", greetings |-> 0]]
  /\ failStreak = 0
  /\ ops = <<>>
  /\ last = Step("init", 0, NoPayload, NoResponse)
  /\ ret = Undefined

\* -------------------------------------------------------------- actions
\* server.listen(port, () => startEventPolling())
Listening(hist) ==
  /\ ~listening /\ ~closed
  /\ listening' = TRUE
  /\ StartEventPolling(pollInterval)
  /\ last' = Step("listening", 0, NoPayload, NoResponse)
  /\ UNCHANGED <<closed, nextConn, clients, readyState, lastSeenTxHashes,
                 pollInterval, sentLive>>
  /\ Track(hist) /\ Deliver /\ ret' = Undefined

\* faulty variant: the greeting sent before the connection is registered
ConnectOpsGreetFirst(before, cl, rs, c, interval, now) ==
  SendToClient(before, rs, c, ConnectionEstablishedMsg(c, interval, now))

\* the sends of the "connection" handler: clients.set(...) at line 141, the
\* handlers attached, then sendToClient(clientId, {connection_established})
ConnectOps(before, cl, rs, c, interval, now) ==
  SendToClient(cl, rs, c, ConnectionEstablishedMsg(c, interval, now))

\* wss.on("connection"): register under a fresh id, greet
Connect(limit, now) ==
  /\ listening /\ ~closed
  /\ nextConn <= limit
  /\ LET c == nextConn
         cl == Append(clients, c)
         rs == [readyState EXCEPT ![c] = "OPEN"]
     IN /\ clients' = cl
        /\ readyState' = rs
        /\ ops' = ConnectOps(clients, cl, rs, c, pollInterval, now)
        /\ last' = Step("connection", c, NoPayload, NoResponse)
  /\ nextConn' = nextConn + 1
  /\ UNCHANGED <<listening, closed, lastSeenTxHashes, pollInterval,
                 pollingInterval, timers, pending, sentLive>>
  /\ Idle /\ Deliver /\ ret' = Undefined

\* The peer's close frame, or the socket ending: the socket leaves OPEN
\* while its "close" event has not been emitted yet.
PeerClosing(c) ==
  /\ readyState[c] = "OPEN"
  /\ readyState' = [readyState EXCEPT ![c] = "CLOSING"]
  /\ ops' = <<>>
  /\ last' = Step("closing", c, NoPayload, NoResponse)
  /\ UNCHANGED <<listening, closed, nextConn, clients, lastSeenTxHashes,
                 pollInterval, pollingInterval, timers, pending, sentLive>>
  /\ Idle /\ Deliver /\ ret' = Undefined

\* ws.on("close"): clients.delete(clientId)
CloseEvent(c) ==
  /\ readyState[c] = "CLOSING"
  /\ readyState' = [readyState EXCEPT ![c] = "CLOSED"]
  /\ clients' = MapDelete(clients, c)
  /\ ops' = <<>>
  /\ last' = Step("close", c, NoPayload, NoResponse)
  /\ UNCHANGED <<listening, closed, nextConn, lastSeenTxHashes,
                 pollInterval, pollingInterval, timers, pending, sentLive>>
  /\ Idle /\ Deliver /\ ret' = Undefined

\* a tick of an active interval timer: pollEvents() up to its await
TimerFire(t, hist) ==
  /\ timers[t] # 0
  /\ Len(pending) < MaxInFlight
  /\ pending' = PollEvents(pending)
  /\ ops' = <<FetchOp(PollRequest)>>
  /\ last' = Step("timer", t, NoPayload, NoResponse)
  /\ UNCHANGED <<listening, closed, nextConn, clients, readyState,
                 lastSeenTxHashes, pollInterval, pollingInterval, timers,
                 sentLive>>
  /\ Track(hist) /\ Deliver /\ ret' = Undefined

\* ------------------------------------------------------ control messages
\* faulty variant: a parser that never throws
JSONParseLenient(raw) == [threw |-> FALSE, value |-> raw]

\* JSON.parse(message.toString()): throws on text that is not JSON,
\* otherwise yields the value the text denotes.
JSONParse(raw) == [threw |-> raw.kind = "garbage", value |-> raw]

\* Evaluating `parsedMessage.type`: a TypeError on null, undefined ("")
\* on a number or string, the member (or undefined) on an object.
TypeThrows(value) == value.kind = "null"
TypeOf(value) == IF value.kind = "object" THEN value.type ELSE ""

\* faulty variant: update_filters handled whatever it carries
HasFiltersAlways(value) == TRUE

\* the truthiness test `parsedMessage.eventTypes || parsedMessage.marketplaces`
HasFilters(value) == value.eventTypes # "" \/ value.marketplaces # ""

\* faulty variant: the reply first, pollEvents() after it
GetLatestEventsOpsReplyFirst(cl, rs, c, now) ==
  SendToClient(cl, rs, c, FetchingEventsMsg(now)) \o <<FetchOp(PollRequest)>>

\* case "get_latest_events": pollEvents() and then the reply
GetLatestEventsOps(cl, rs, c, now) ==
  <<FetchOp(PollRequest)>> \o SendToClient(cl, rs, c, FetchingEventsMsg(now))

\* case "update_filters" with a filter present: the reply and then pollEvents()
UpdateFiltersOps(cl, rs, c, value, now) ==
  SendToClient(cl, rs, c, FiltersUpdatedMsg(value, now)) \o <<FetchOp(PollRequest)>>

\* does handling this payload call pollEvents()?
TriggersPoll(raw) ==
  LET parsed == JSONParse(raw)
  IN /\ ~parsed.threw
     /\ ~TypeThrows(parsed.value)
     /\ \/ TypeOf(parsed.value) = "get_latest_events"
        \/ TypeOf(parsed.value) = "update_filters" /\ HasFilters(parsed.value)

\* the effects of the "message" handler, in program order
MessageOps(cl, rs, c, raw, now) ==
  LET parsed == JSONParse(raw)
      value == parsed.value
  IN IF parsed.threw \/ TypeThrows(value)
     THEN SendToClient(cl, rs, c, ErrorMsg)
     ELSE CASE TypeOf(value) = "ping" ->
                 SendToClient(cl, rs, c, PongMsg(value, now))
            [] TypeOf(value) = "get_latest_events" ->
                 GetLatestEventsOps(cl, rs, c, now)
            [] TypeOf(value) = "update_filters" /\ HasFilters(value) ->
                 UpdateFiltersOps(cl, rs, c, value, now)
            [] OTHER -> <<>>

\* ws.on("message")
Message(c, raw, now, hist) ==
  /\ readyState[c] \in {"OPEN", "CLOSING"}
  /\ TriggersPoll(raw) => Len(pending) < MaxInFlight
  /\ ops' = MessageOps(clients, readyState, c, raw, now)
  /\ pending' = IF TriggersPoll(raw) THEN PollEvents(pending) ELSE pending
  /\ last' = Step("message", c, raw, NoResponse)
  /\ UNCHANGED <<listening, closed, nextConn, clients, readyState,
                 lastSeenTxHashes, pollInterval, pollingInterval, timers,
                 sentLive>>
  /\ Track(hist) /\ Deliver /\ ret' = Undefined

\* ------------------------------------------- pollEvents after its await
\* the window after a cycle that found newEvents
Admit(seen, newEvents) ==
  IF Len(newEvents) > 0 THEN Trim(AddAll(seen, newEvents)) ELSE seen

\* the effects of the continuation, in program order
PollOps(cl, rs, seen, resp, now) ==
  LET eventData == FetchNftEventsResult(resp)
  IN IF InvalidEventData(eventData) THEN <<>>
     ELSE BroadcastEach(cl, rs, NewEvents(eventData.content, seen), now)

PollWindow(seen, resp) ==
  LET eventData == FetchNftEventsResult(resp)
  IN IF InvalidEventData(eventData) THEN seen
     ELSE Admit(seen, NewEvents(eventData.content, seen))

\* txHashes of the nft_event broadcast calls recorded in a sequence of ops
BroadcastTx(o) ==
  LET b == SelectSeq(o, LAMBDA e : e.op = "broadcast" /\ e.msg.type = "nft_event")
  IN [i \in 1..Len(b) |-> b[i].msg.txHash]

\* faulty variant: a cycle that fails stops the timer
TimersAfterCycleStopOnFailure(tm, handle, eventData) ==
  IF InvalidEventData(eventData) THEN ClearInterval(tm, handle) ELSE tm

\* the timers after a cycle: pollEvents never touches them; on an invalid
\* result it logs and returns (lines 79-86), and its catch (lines 120-122)
\* only logs
TimersAfterCycle(tm, handle, eventData) == tm

\* the i-th outstanding axios.request settles with `resp`
FetchResolve(i, resp, now, hist) ==
  /\ i \in 1..Len(pending)
  /\ pending' = RemoveAt(pending, i)
  /\ lastSeenTxHashes' = PollWindow(lastSeenTxHashes, resp)
  /\ ops' = PollOps(clients, readyState, lastSeenTxHashes, resp, now)
  /\ sentLive' = [h \in TxHashes |->
                    IF h \notin Range(lastSeenTxHashes') THEN 0
                    ELSE Min(2, sentLive[h] + Count(BroadcastTx(ops'), h))]
  /\ last' = Step("resolve", 0, NoPayload, resp)
  /\ cycles' = EndCycle(cycles, i, Range(BroadcastTx(ops')), hist)
  /\ finished' = cycles[i]
  /\ failStreak' = IF InvalidEventData(FetchNftEventsResult(resp))
                   THEN Min(hist.streak, failStreak + 1) ELSE 0
  /\ timers' = TimersAfterCycle(timers, pollingInterval, FetchNftEventsResult(resp))
  /\ UNCHANGED <<listening, closed, nextConn, clients, readyState,
                 pollInterval, pollingInterval>>
  /\ Deliver /\ ret' = Undefined

\* ------------------------------------------------------ the returned API
\* setPollInterval(newInterval)
SetPollInterval(newInterval, hist) ==
  /\ pollInterval' = newInterval
  /\ StartEventPolling(newInterval)
  /\ last' = Step("setPollInterval", 0, NoPayload, NoResponse)
  /\ UNCHANGED <<listening, closed, nextConn, clients, readyState,
                 lastSeenTxHashes, sentLive>>
  /\ Track(hist) /\ Deliver /\ ret' = Undefined

\* faulty variant: a terminate() that leaves the socket as it is
TerminateNot(rs, c) == rs[c]

\* connection.terminate(): destroys the socket, which leaves OPEN
Terminate(rs, c) == IF rs[c] = "OPEN" THEN "CLOSING" ELSE rs[c]

\* shutdown()
Shutdown ==
  /\ timers' = ClearInterval(timers, pollingInterval)
  /\ pollingInterval' = 0
  /\ closed' = TRUE
  /\ readyState' = [c \in Conns |->
                      IF c \in Range(clients) THEN Terminate(readyState, c)
                      ELSE readyState[c]]
  /\ clients' = <<>>
  /\ ops' = <<>>
  /\ last' = Step("shutdown", 0, NoPayload, NoResponse)
  /\ UNCHANGED <<listening, nextConn, lastSeenTxHashes, pollInterval,
                 pending, sentLive>>
  /\ Idle /\ Deliver /\ ret' = Undefined

\* a message the owner of the server broadcasts through the returned API
OwnerMsg == Msg("notice", 0, 0, "", "", "", 0, 0)

\* what broadcast(message) returns: its body (lines 201-216) counts the
\* sends in activeClients, logs the count, and has no return statement
BroadcastReturn(cl, rs, m) == Undefined

\* broadcast(message), called through the returned API
ApiBroadcast(m) ==
  /\ ops' = Broadcast(clients, readyState, m)
  /\ last' = Step("broadcast", 0, NoPayload, NoResponse)
  /\ UNCHANGED <<listening, closed, nextConn, clients, readyState,
                 lastSeenTxHashes, pollInterval, pollingInterval, timers,
                 pending, sentLive>>
  /\ Idle /\ Deliver
  /\ ret' = BroadcastReturn(clients, readyState, m)

\* ----------------------------------------------------------------- Next
\* The server driven by clients sending payloads from P, an upstream
\* answering with responses from R, a clock reading values from T, an owner
\* calling setPollInterval with values from V, at most `limit` connections
\* accepted, and the history variables following `hist`.
Engine(P, R, T, V, limit, hist) ==
  \/ Listening(hist)
  \/ \E now \in T : Connect(limit, now)
  \/ \E c \in Conns : PeerClosing(c)
  \/ \E c \in Conns : CloseEvent(c)
  \/ \E t \in TimerIds : TimerFire(t, hist)
  \/ \E c \in Conns, raw \in P, now \in T : Message(c, raw, now, hist)
  \/ \E i \in 1..MaxInFlight, resp \in R, now \in T : FetchResolve(i, resp, now, hist)
  \/ \E v \in V : SetPollInterval(v, hist)
  \/ Shutdown
  \/ ApiBroadcast(OwnerMsg)

\* the views whose properties need neither overlap nor failure streaks
Server(P, R, T, V, limit) == Engine(P, R, T, V, limit, NoHistory)

\* Control-protocol and registry view: every payload, every clock value,
\* MaxConns connections; upstream answers with at most one event, always
\* the same one.
ShortResponses ==
  {r \in Responses : Len(r.body.content) <= 1 /\ Range(r.body.content) \subseteq {1}}

Next == Server(Payloads, ShortResponses, Times, PollIntervals, MaxConns)

Spec == Init /\ [][Next]_vars

\* Engine view: every upstream response, every poll trigger; one subscriber,
\* one clock value, one interval.
TriggerPayloads == {raw \in Payloads : TriggersPoll(raw)}

NextPoll == Server(TriggerPayloads, Responses, {MaxTime}, {DefaultPollInterval}, 1)

SpecPoll == Init /\ [][NextPoll]_vars

\* Overlap view: upstream answers whose records have pairwise distinct
\* txHashes; every payload; one subscriber, one clock value, one interval;
\* the cycle records follow overlap.
DistinctResponses ==
  {r \in Responses : Len(r.body.content) = Cardinality(Range(r.body.content))}

NextDistinct ==
  Engine(Payloads, DistinctResponses, {MaxTime}, {DefaultPollInterval}, 1,
         FollowOverlap)

SpecDistinct == Init /\ [][NextDistinct]_vars

\* Failure view: the server left running (no shutdown, no setPollInterval)
\* with one subscriber; upstream rejects the request, answers without a
\* content array, or answers with the Watched event, which it keeps
\* returning; failure streaks are followed up to MaxStreak.
OkWatched == [ok |-> TRUE, body |-> Body("array", <<Watched>>)]

LiveResponses ==
  {[ok |-> FALSE, body |-> Body("null", <<>>)],
   [ok |-> TRUE, body |-> Body("nocontent", <<>>)],
   OkWatched}

NextLive ==
  \/ Listening(FollowStreak)
  \/ Connect(1, MaxTime)
  \/ \E c \in Conns : PeerClosing(c)
  \/ \E c \in Conns : CloseEvent(c)
  \/ \E t \in TimerIds : TimerFire(t, FollowStreak)
  \/ \E c \in Conns, raw \in TriggerPayloads : Message(c, raw, MaxTime, FollowStreak)
  \/ \E i \in 1..MaxInFlight, resp \in LiveResponses :
        FetchResolve(i, resp, MaxTime, FollowStreak)

\* The server starts listening; the timer, while active, keeps ticking
\* (setInterval); every request is eventually settled; and upstream
\* eventually answers a request successfully.
Fairness ==
  /\ WF_vars(Listening(FollowStreak))
  /\ SF_vars(\E t \in TimerIds : TimerFire(t, FollowStreak))
  /\ WF_vars(\E i \in 1..MaxInFlight, resp \in LiveResponses :
               FetchResolve(i, resp, MaxTime, FollowStreak))
  /\ SF_vars(\E i \in 1..MaxInFlight :
               FetchResolve(i, OkWatched, MaxTime, FollowStreak))

SpecLive == Init /\ [][NextLive]_vars /\ Fairness

TypeOK ==
  /\ listening \in BOOLEAN /\ closed \in BOOLEAN
  /\ nextConn \in 1..(MaxConns + 1)
  /\ Range(clients) \subseteq Conns
  /\ readyState \in [Conns -> {"NONE", "OPEN", "CLOSING", "CLOSED"}]
  /\ Range(lastSeenTxHashes) \subseteq TxHashes
  /\ pollInterval \in PollIntervals
  /\ pollingInterval \in {0} \cup TimerIds
  /\ Len(pending) <= MaxInFlight
  /\ Len(cycles) = Len(pending)
  /\ \A i \in 1..Len(cycles) : cycles[i] \in [overtaken : BOOLEAN, sent : BOOLEAN]
  /\ finished \in [overtaken : BOOLEAN, sent : BOOLEAN]
  /\ inbox \in [Conns -> [first : {"", "connection_established"}, greetings : 0..2]]
  /\ failStreak \in 0..MaxStreak
  /\ ret \in {Undefined}

\* ================================================================ claims
\* ------------------------------------------- vocabulary of the properties
\* the step just taken is the continuation of pollEvents
IsResolve(l) == l.handler = "resolve"

\* the response of the step is a failure: rejected request, or no content array
FailedResponse(resp) == ~resp.ok \/ resp.body.kind # "array"

\* the step just taken handled a message of this type, sent as a JSON object
IsMessage(l, type) ==
  l.handler = "message" /\ l.payload.kind = "object" /\ l.payload.type = type

\* txHashes of the nft_event messages sent to connection c, in order
SentTx(o, c) ==
  LET m == SelectSeq(o, LAMBDA e : e.op = "send" /\ e.to = c /\ e.msg.type = "nft_event")
  IN [i \in 1..Len(m) |-> m[i].msg.txHash]

\* the socket sends recorded in a sequence of ops
Sends(o) == SelectSeq(o, LAMBDA e : e.op = "send")

\* the axios.request calls recorded in a sequence of ops
Fetches(o) == SelectSeq(o, LAMBDA e : e.op = "fetch")

\* the elements of s in order of first occurrence
RECURSIVE Distinct(_)
Distinct(s) ==
  IF s = <<>> THEN <<>>
  ELSE LET d == Distinct(SubSeq(s, 1, Len(s) - 1))
       IN IF s[Len(s)] \in Range(d) THEN d ELSE Append(d, s[Len(s)])

\* the last n elements of s (all of s when it is shorter)
LastN(s, n) == IF Len(s) <= n THEN s ELSE SubSeq(s, Len(s) - n + 1, Len(s))

\* the engine state a failed cycle or a rejected message must leave alone
EngineUnchanged ==
  /\ lastSeenTxHashes' = lastSeenTxHashes
  /\ timers' = timers
  /\ pollingInterval' = pollingInterval
  /\ pollInterval' = pollInterval
  /\ clients' = clients
  /\ readyState' = readyState

\* ---------------------------------------------------------------------- C1
\* C1: a txHash is broadcast as an nft_event at most once while it stays in
\* the dedup window (sentLive counts the broadcasts of a txHash during its
\* current residence in lastSeenTxHashes).
C1_BroadcastAtMostOnce == \A h \in TxHashes : sentLive[h] <= 1

\* ---------------------------------------------------------------------- C2
\* C2: single-flight polling: in every reachable state at most one upstream
\* fetch is unresolved.
C2_SingleFlight == Len(pending) <= 1

\* ---------------------------------------------------------------------- C3
\* C3: after every completed poll cycle the window holds at most Capacity
\* ids, and it is exactly the last Capacity of (the window before the cycle
\* followed by the distinct ids the cycle admitted, in response order):
\* eviction is FIFO by insertion order, also when one batch alone exceeds
\* the capacity.
C3_WindowFIFO ==
  [][IsResolve(last') /\ ~FailedResponse(last'.resp) =>
       LET fresh == Distinct(SelectSeq(last'.resp.body.content,
                                       LAMBDA h : h \notin Range(lastSeenTxHashes)))
       IN /\ Len(lastSeenTxHashes') <= Capacity
          /\ lastSeenTxHashes' = LastN(lastSeenTxHashes \o fresh, Capacity)]_vars

\* a single batch with more new ids than the window holds has been processed
C3_Witness ==
  /\ IsResolve(last)
  /\ Len(BroadcastTx(ops)) > Capacity
  /\ Len(Distinct(BroadcastTx(ops))) > Capacity
  /\ Len(lastSeenTxHashes) = Capacity

\* ---------------------------------------------------------------------- C4
\* C4: within one successful poll cycle the nft_event broadcasts are exactly
\* the records of the response whose txHash was not in the window when
\* processing started, one broadcast per record, in response order; the
\* cycle makes no other broadcast.
C4_BroadcastNewInOrder ==
  [][IsResolve(last') /\ ~FailedResponse(last'.resp) =>
       /\ BroadcastTx(ops') =
            SelectSeq(last'.resp.body.content,
                      LAMBDA h : h \notin Range(lastSeenTxHashes))
       /\ \A i \in 1..Len(ops') :
            ops'[i].op = "broadcast" => ops'[i].msg.type = "nft_event"]_vars

\* a response repeating a known txHash before a new one: only the new one
\* was broadcast
C4_Witness ==
  /\ IsResolve(last)
  /\ Len(last.resp.body.content) = 2
  /\ last.resp.body.content[1] # last.resp.body.content[2]
  /\ BroadcastTx(ops) = <<last.resp.body.content[2]>>

\* ---------------------------------------------------------------------- C5
\* C5: a broadcast reaches a connection iff it is registered and its socket
\* is OPEN when visited: after a poll cycle every registered OPEN connection
\* was sent exactly the broadcast events, in order, and a closing, closed or
\* unregistered connection was sent nothing (and stopped nothing).
C5_BroadcastOnlyToOpen ==
  IsResolve(last) =>
    \A c \in Conns :
      SentTx(ops, c) = IF c \in Range(clients) /\ readyState[c] = "OPEN"
                       THEN BroadcastTx(ops) ELSE <<>>

\* an event was broadcast while one registered connection was OPEN and
\* another registered connection was CLOSING
C5_Witness ==
  /\ IsResolve(last)
  /\ BroadcastTx(ops) # <<>>
  /\ \E c, d \in Range(clients) :
       readyState[c] = "OPEN" /\ readyState[d] = "CLOSING"

\* ---------------------------------------------------------------------- C6
\* C6: a failed poll cycle (rejected request, or a body without a content
\* array) sends and broadcasts nothing and leaves the dedup window, the
\* timer and the registry as they were.
C6_FailedCycleSilent ==
  [][IsResolve(last') /\ FailedResponse(last'.resp) =>
       ops' = <<>> /\ sentLive' = sentLive /\ EngineUnchanged]_vars

\* a rejected request whose body carried an event was dropped while a
\* subscriber was connected, the txHash unseen and the timer running
C6_Witness ==
  /\ IsResolve(last)
  /\ ~last.resp.ok
  /\ last.resp.body.kind = "array"
  /\ Range(last.resp.body.content) # {}
  /\ Range(last.resp.body.content) \cap Range(lastSeenTxHashes) = {}
  /\ \E c \in Range(clients) : readyState[c] = "OPEN"
  /\ pollingInterval # 0 /\ timers[pollingInterval] # 0

\* ---------------------------------------------------------------------- C7
\* C7: a ping with timestamp t from an open connection is answered by
\* exactly one pong, sent to that connection only, whose timestamp is t.
C7_PongEchoesTimestamp ==
  IsMessage(last, "ping") /\ readyState[last.conn] = "OPEN" =>
    /\ Len(ops) = 1
    /\ ops[1].op = "send"
    /\ ops[1].to = last.conn
    /\ ops[1].msg.type = "pong"
    /\ ops[1].msg.timestamp = last.payload.timestamp

\* ---------------------------------------------------------------------- C8
\* C8: a payload that is not valid JSON, from an open connection, is
\* answered by exactly one error message with the fixed text, sent to that
\* connection only; the connection stays registered and open, no poll is
\* triggered, and the dedup window and the timer are unchanged.
C8_InvalidJsonError ==
  [][/\ last'.handler = "message"
     /\ last'.payload.kind = "garbage"
     /\ readyState[last'.conn] = "OPEN"
     =>
     /\ Len(ops') = 1
     /\ ops'[1].op = "send"
     /\ ops'[1].to = last'.conn
     /\ ops'[1].msg.type = "error"
     /\ ops'[1].msg.message = "Invalid message format. Expected JSON."
     /\ last'.conn \in Range(clients')
     /\ readyState'[last'.conn] = "OPEN"
     /\ pending' = pending
     /\ EngineUnchanged]_vars

\* a non-JSON payload was answered while a second connection was open
C8_Witness ==
  /\ last.handler = "message"
  /\ last.payload.kind = "garbage"
  /\ Len(ops) = 1
  /\ \E d \in Conns : d # last.conn /\ readyState[d] = "OPEN"

\* ---------------------------------------------------------------------- C9
\* C9 (as claimed): on get_latest_events from an open connection the
\* fetching_events reply is sent first and the upstream fetch issued after it.
C9_ReplyBeforeFetch ==
  IsMessage(last, "get_latest_events") /\ readyState[last.conn] = "OPEN" =>
    /\ Len(ops) = 2
    /\ ops[1].op = "send" /\ ops[1].msg.type = "fetching_events"
    /\ ops[2].op = "fetch"

\* C9 (amended): on get_latest_events from an open connection the handler
\* issues the upstream fetch first and then, in the same run, sends the
\* fetching_events reply to the sender only; the fetch is still unresolved
\* when the reply is sent.
C9_FetchThenReply ==
  IsMessage(last, "get_latest_events") /\ readyState[last.conn] = "OPEN" =>
    /\ Len(ops) = 2
    /\ ops[1].op = "fetch"
    /\ ops[2].op = "send"
    /\ ops[2].to = last.conn
    /\ ops[2].msg.type = "fetching_events"
    /\ Len(pending) >= 1

\* get_latest_events was handled for an open connection
C9_Witness ==
  /\ IsMessage(last, "get_latest_events")
  /\ readyState[last.conn] = "OPEN"
  /\ Sends(ops) # <<>>
  /\ Fetches(ops) # <<>>

\* --------------------------------------------------------------------- C10
\* C10: handling update_filters with eventTypes and/or marketplaces triggers
\* an immediate poll, and the fetches issued from then on use the updated
\* values; stated for the first of them, the immediate fetch: its request
\* carries the values the filters_updated reply resolved.
C10_FetchUsesUpdatedFilters ==
  IsMessage(last, "update_filters") /\ HasFilters(last.payload) =>
    /\ Len(Fetches(ops)) = 1
    /\ Fetches(ops)[1].msg.eventTypes =
         OrElse(last.payload.eventTypes, DefaultEventTypes)
    /\ Fetches(ops)[1].msg.marketplaces =
         OrElse(last.payload.marketplaces, DefaultMarketplaces)

\* --------------------------------------------------------------------- C11
\* C11: poll cycles do not overlap: whenever a cycle performs its nft_event
\* broadcasts, no later cycle has begun (issued its upstream fetch) since
\* that cycle's own fetch was issued.
C11_CyclesDoNotOverlap ==
  IsResolve(last) /\ BroadcastTx(ops) # <<>> => ~finished.overtaken

\* --------------------------------------------------------------------- C12
\* C12: shutdown() leaves the registry empty, every connection that was
\* registered terminated (its socket no longer OPEN), the timer handle null
\* and no interval timer active, so that no timer tick can follow; a second
\* shutdown() changes nothing; and a fetch in flight at shutdown completes
\* without a send to any connection.
C12_ShutdownStopsAll ==
  [][/\ last'.handler = "shutdown" =>
          /\ clients' = <<>>
          /\ \A c \in Range(clients) : readyState'[c] \in {"CLOSING", "CLOSED"}
          /\ pollingInterval' = 0
          /\ \A t \in TimerIds : timers'[t] = 0
          /\ closed'
     /\ last.handler = "shutdown" /\ last'.handler = "shutdown" =>
          UNCHANGED <<listening, closed, nextConn, clients, readyState,
                      lastSeenTxHashes, pollInterval, pollingInterval,
                      timers, pending>>
     /\ IsResolve(last') /\ closed =>
          Sends(ops') = <<>>]_vars

\* a fetch that was in flight when shutdown() terminated an open connection
\* has resolved with a new event, which was broadcast to nobody
C12_Witness ==
  /\ IsResolve(last)
  /\ closed
  /\ BroadcastTx(ops) # <<>>
  /\ Sends(ops) = <<>>
  /\ clients = <<>>
  /\ \E c \in Conns : readyState[c] = "CLOSING"
  /\ \A t \in TimerIds : timers[t] = 0

\* --------------------------------------------------------------------- C13
\* the messages of the broadcast calls recorded in a sequence of ops
BroadcastMsgs(o) ==
  LET b == SelectSeq(o, LAMBDA e : e.op = "broadcast")
  IN [i \in 1..Len(b) |-> b[i].msg]

\* the type of the reply the protocol gives to a payload (none: <<>>)
ReplyTypes(raw) ==
  IF raw.kind \in {"garbage", "null"} THEN <<"error">>
  ELSE IF raw.kind # "object" THEN <<>>
  ELSE IF raw.type = "ping" THEN <<"pong">>
  ELSE IF raw.type = "get_latest_events" THEN <<"fetching_events">>
  ELSE IF raw.type = "update_filters" /\ (raw.eventTypes # "" \/ raw.marketplaces # "")
       THEN <<"filters_updated">>
  ELSE <<>>

\* the types of the messages a sequence of messages holds, in order
TypesOf(ms) == [i \in 1..Len(ms) |-> ms[i].type]

\* C13: per-connection FIFO: in every step a registered connection whose
\* socket is OPEN is sent exactly the messages that broadcast and
\* sendToClient were invoked with for it in that step, each once and in
\* invocation order: every broadcast message of a poll cycle or of an API
\* broadcast, the greeting on its own connect, the one reply to its own
\* control message, and nothing on any other step.  (Steps do not
\* interleave, so the order across steps is the order of the steps.)
C13_PerConnectionFifo ==
  \A c \in Range(clients) :
    readyState[c] = "OPEN" =>
      IF last.handler \in {"resolve", "broadcast"}
      THEN MsgsTo(ops, c) = BroadcastMsgs(ops)
      ELSE /\ BroadcastMsgs(ops) = <<>>
           /\ TypesOf(MsgsTo(ops, c)) =
                IF last.handler = "connection" /\ last.conn = c
                THEN <<"connection_established">>
                ELSE IF last.handler = "message" /\ last.conn = c
                THEN ReplyTypes(last.payload)
                ELSE <<>>

\* an open, greeted connection was sent the events of a batch of at least
\* two, in response order
C13_Witness ==
  /\ IsResolve(last)
  /\ Len(BroadcastTx(ops)) >= 2
  /\ \E c \in Range(clients) :
       /\ readyState[c] = "OPEN"
       /\ inbox[c].first = "connection_established"
       /\ SentTx(ops, c) = last.resp.body.content

\* --------------------------------------------------------------------- C14
\* C14: broadcast(message) returns the number of connections the message
\* was sent to in that call: the number of registered connections whose
\* socket was OPEN.
C14_BroadcastReturnsCount ==
  last.handler = "broadcast" =>
    /\ ret = Number(Cardinality({c \in Range(clients) : readyState[c] = "OPEN"}))
    /\ ret = Number(Len(Sends(ops)))

\* --------------------------------------------------------------------- C15
\* a well-formed JSON message no case of the handler takes: an object (or a
\* number, string, array, boolean) whose type is none of ping,
\* get_latest_events, update_filters, or an update_filters object carrying
\* neither eventTypes nor marketplaces
Unhandled(raw) ==
  \/ raw.kind = "scalar"
  \/ /\ raw.kind = "object"
     /\ raw.type \notin {"ping", "get_latest_events", "update_filters"}
  \/ /\ raw.kind = "object"
     /\ raw.type = "update_filters"
     /\ raw.eventTypes = "" /\ raw.marketplaces = ""

C16_GreetedFirstOnce ==
  /\ \A c \in Conns :
       IF readyState[c] = "NONE"
       THEN /\ c \notin Range(clients)
            /\ inbox[c] = [first |-> "", greetings |-> 0]
       ELSE /\ inbox[c].first = "connection_established"
            /\ inbox[c].greetings = 1
  /\ \A c \in Conns : Count(clients, c) <= 1
  /\ last.handler = "connection" =>
       /\ last.conn \in Range(clients)
       /\ TypesOf(MsgsTo(ops, last.conn)) = <<"connection_established">>

\* a second connection was accepted and greeted after a poll cycle had
\* broadcast an event, while the first connection, greeted first, was open
C16_Witness ==
  /\ last.handler = "connection"
  /\ lastSeenTxHashes # <<>>
  /\ \E c \in Range(clients) :
       /\ c # last.conn
       /\ readyState[c] = "OPEN"
       /\ inbox[c].first = "connection_established"
  /\ inbox[last.conn] = [first |-> "connection_established", greetings |-> 1]

\* --------------------------------------------------------------------- C17
\* C17 (as claimed): when fetches are outstanding at once and their
\* responses, each with pairwise distinct txHashes, hold the same previously
\* unseen txHash, exactly one nft_event is broadcast for it: a cycle that
\* completes never broadcasts a txHash (followed here for the Watched one)
\* that another cycle broadcast while this one's fetch was outstanding.
C17_OverlapBroadcastsOnce ==
  IsResolve(last) /\ finished.sent => Watched \notin Range(BroadcastTx(ops))

\* C17 (amended): each resolution is one uninterrupted step that broadcasts
\* a txHash of its response exactly once if it is not in the window at that
\* moment and not at all if it is; so of overlapping responses holding the
\* same txHash only the first to resolve broadcasts it, for as long as the
\* txHash stays in the window: no txHash is broadcast twice during one
\* residence in the window, in whatever order the responses resolve.
C17_OverlapBroadcastsOnceInWindow ==
  [][IsResolve(last') =>
       /\ \A h \in TxHashes :
            Count(BroadcastTx(ops'), h) =
              IF /\ ~FailedResponse(last'.resp)
                 /\ h \in Range(last'.resp.body.content)
                 /\ h \notin Range(lastSeenTxHashes)
              THEN 1 ELSE 0
       /\ \A h \in TxHashes : sentLive'[h] <= 1
       /\ finished'.sent /\ Watched \in Range(lastSeenTxHashes) =>
            Watched \notin Range(BroadcastTx(ops'))]_vars

\* of two fetches outstanding at once whose responses both held the Watched
\* txHash, the one resolving second did not broadcast it again
C17_Witness ==
  /\ IsResolve(last)
  /\ finished.sent
  /\ ~FailedResponse(last.resp)
  /\ Watched \in Range(last.resp.body.content)
  /\ Watched \notin Range(BroadcastTx(ops))
  /\ sentLive[Watched] = 1

\* --------------------------------------------------------------------- C18
\* the interval timers that are active
ActiveTimers == {t \in TimerIds : timers[t] # 0}

\* C18: in every reachable state at most one interval timer is active; an
\* active timer is the one the handle refers to and runs at the current
\* pollInterval; the initial start and every setPollInterval call leave
\* exactly that one timer, and every timer tick is a tick of it, at the most
\* recently set interval.
C18_OneTimerAtCurrentInterval ==
  /\ Cardinality(ActiveTimers) <= 1
  /\ \A t \in ActiveTimers : t = pollingInterval /\ timers[t] = pollInterval
  /\ last.handler \in {"listening", "setPollInterval"} =>
       ActiveTimers = {pollingInterval}
  /\ last.handler = "timer" =>
       ActiveTimers = {last.conn} /\ timers[last.conn] = pollInterval

\* after setPollInterval changed the interval, the timer ticked at the new one
C18_Witness ==
  /\ last.handler = "timer"
  /\ pollInterval # DefaultPollInterval
  /\ timers[last.conn] = pollInterval
  /\ Fetches(ops) # <<>>

\* --------------------------------------------------------------------- C19
\* C19: polling survives upstream failures: with the timer active and
\* ticking, after any number of consecutive failed cycles a timer tick
\* issues a new fetch again, the timer stays active however many cycles
\* fail, and the event upstream keeps returning is eventually broadcast,
\* upstream eventually answering successfully.
C19_PollingSurvivesFailures ==
  /\ \A n \in 1..MaxStreak :
       (failStreak = n) ~> (last.handler = "timer" /\ Fetches(ops) # <<>>)
  /\ [](listening => ActiveTimers # {})
  /\ <>(Watched \in Range(BroadcastTx(ops)))

\* a timer tick issued a fetch after MaxStreak consecutive failed cycles,
\* the event not yet in the window
C19_Witness ==
  /\ last.handler = "timer"
  /\ Fetches(ops) # <<>>
  /\ failStreak = MaxStreak
  /\ Watched \notin Range(lastSeenTxHashes)

\* --------------------------------------------------------------------- C20
\* C20: a fetch that never resolves starves nothing.  While a fetch is
\* outstanding (and the model's cap on outstanding fetches leaves room), a
\* tick of the active timer and a get_latest_events message from an open
\* connection can still be handled, and handling them issues one more
\* fetch; a fetch that resolves while an older one is still outstanding
\* broadcasts its new events; and shutdown() can still be called and
\* cancels the timer and empties the registry.
C20_HungFetchDoesNotStarve ==
  [][pending # <<>> =>
       /\ Len(pending) < MaxInFlight /\ ActiveTimers # {} =>
            ENABLED (\E t \in TimerIds : TimerFire(t, FollowOverlap))
       /\ Len(pending) < MaxInFlight =>
            \A c \in Range(clients) :
              readyState[c] = "OPEN" =>
                ENABLED Message(c, Raw("object", "get_latest_events", 0, "", ""),
                                MaxTime, FollowOverlap)
       /\ ENABLED Shutdown
       /\ last'.handler = "timer" \/ IsMessage(last', "get_latest_events") =>
            /\ Len(Fetches(ops')) = 1
            /\ Len(pending') = Len(pending) + 1
       /\ IsResolve(last') /\ pending' # <<>> /\ ~FailedResponse(last'.resp) =>
            BroadcastTx(ops') =
              SelectSeq(last'.resp.body.content,
                        LAMBDA h : h \notin Range(lastSeenTxHashes))
       /\ last'.handler = "shutdown" =>
            /\ \A t \in TimerIds : timers'[t] = 0
            /\ pollingInterval' = 0
            /\ clients' = <<>>
            /\ pending' = pending]_vars

\* with the first fetch still unresolved, a fetch issued after it resolved
\* and its new event was broadcast to an open connection
C20_Witness ==
  /\ IsResolve(last)
  /\ pending # <<>>
  /\ cycles[1].overtaken
  /\ ~finished.overtaken
  /\ BroadcastTx(ops) # <<>>
  /\ Sends(ops) # <<>>

====
